---------------------------- MODULE Spec2Model ----------------------------
(***************************************************************************)
(* Treewalker (src/main.rs): a command-line tool that prints a directory   *)
(* as a tree.  The model holds a file system, the command line of one      *)
(* invocation, the call stack of the recursive print_tree, and the two     *)
(* output streams.  Text is modelled as sequences of code points, names as *)
(* sequences of bytes, paths as sequences of names below the root          *)
(* argument.  The file system is built before the first invocation and     *)
(* does not change while the program runs.                                 *)
(***************************************************************************)
EXTENDS Integers, Sequences, FiniteSets, TLC

VARIABLES
    fs,          \* the file system: path -> kind of the node at that path
    pc,          \* where the process is
    args,        \* the command line: [path, ignore_hidden]
    stack,       \* frames of print_tree: [path, prefix, entries, i]
    call,        \* the arguments of the print_tree call being entered
    ret,         \* the value the last print_tree call returned
    out,         \* standard output: the lines printed so far
    err,         \* standard error: the diagnostics printed so far
    result,      \* what print_tree returned to main
    exit_code,   \* the process's exit status once it has exited
    underflow,   \* entries.len() - 1 was evaluated with entries.len() = 0
    prev,        \* the previous invocation on the same file system, if any
    runs         \* invocations started so far

vars == <<fs, pc, args, stack, call, ret, out, err, result, exit_code,
          underflow, prev, runs>>

---------------------------------------------------------------------------
(* Bounds of the model.                                                    *)

\* Nodes of the file system below the root; invocations of the program.
MaxNodes == 3
MaxRuns == 2

---------------------------------------------------------------------------
(* Text.                                                                   *)

Dot == 46
Slash == 47

BranchLast == <<9492, 9472, 9472, 32>>
BranchMid == <<9500, 9472, 9472, 32>>
ContLast == <<32, 32, 32, 32>>
ContMid == <<9474, 32, 32, 32>>

\* The names a directory entry may have: ".h", "B", "a.b".
Names == { <<46, 104>>, <<66>>, <<97, 46, 98>> }

\* What the file system answers for a node:
\*   "dir"     a directory that can be enumerated;
\*   "noread"  a directory whose enumeration fails (the iterator yields Err);
\*   "file"    a regular file;
\*   "nostat"  an entry whose metadata query fails (a broken link, say);
\* and "absent" for a root path that does not exist.  Links to directories
\* are not modelled.  Names are ASCII, so to_string_lossy changes nothing.
Kinds == {"dir", "noread", "file", "nostat"}

NoCall == [path |-> <<>>, prefix |-> <<>>]

---------------------------------------------------------------------------
(* The file system.                                                        *)

Kind(p) == IF p \in DOMAIN fs THEN fs[p] ELSE "absent"

Parent(p) == SubSeq(p, 1, Len(p) - 1)

FileName(p) == p[Len(p)]

Children(p) == { q \in DOMAIN fs : Len(q) = Len(p) + 1 /\ Parent(q) = p }

\* Path::is_dir: the metadata query's answer, false when the query fails.
IsDirMut(p) == Kind(p) \in {"dir", "noread", "file"}
IsDirMutNoStat(p) == Kind(p) \in {"dir", "noread", "nostat"}
IsDir(p) == Kind(p) \in {"dir", "noread"}

\* The orders in which a directory iterator may yield the set S.
Orders(S) ==
    { s \in [1..Cardinality(S) -> S] : \A i, j \in 1..Cardinality(S) : s[i] = s[j] => i = j }

---------------------------------------------------------------------------
(* get_dir_entries.                                                        *)

StartsWithDotMut(name) == \E i \in 1..Len(name) : name[i] = Dot
StartsWithDot(name) == Len(name) > 0 /\ name[1] = Dot

KeepEntryMut(ignore_hidden, p) == TRUE
KeepEntry(ignore_hidden, p) == ~(ignore_hidden /\ StartsWithDot(FileName(p)))

RECURSIVE CmpBytes(_, _)
CmpBytes(a, b) ==
    IF a = <<>> /\ b = <<>> THEN "Equal"
    ELSE IF a = <<>> THEN "Less"
    ELSE IF b = <<>> THEN "Greater"
    ELSE IF Head(a) < Head(b) THEN "Less"
    ELSE IF Head(a) > Head(b) THEN "Greater"
    ELSE CmpBytes(Tail(a), Tail(b))

RECURSIVE CmpPath(_, _)
CmpPath(a, b) ==
    IF a = <<>> /\ b = <<>> THEN "Equal"
    ELSE IF a = <<>> THEN "Less"
    ELSE IF b = <<>> THEN "Greater"
    ELSE LET c == CmpBytes(Head(a), Head(b))
         IN  IF c = "Equal" THEN CmpPath(Tail(a), Tail(b)) ELSE c

SortCmpMut(a, b) == CmpPath(a, b)
SortCmp(a, b) ==
    LET a_is_dir == IsDir(a)
        b_is_dir == IsDir(b)
    IN  IF a_is_dir = b_is_dir THEN CmpPath(a, b)
        ELSE IF a_is_dir THEN "Less"
        ELSE "Greater"

\* Inserts x in the sorted sequence s, after the elements that are not greater.
RECURSIVE Insert(_, _)
Insert(x, s) ==
    IF s = <<>> THEN <<x>>
    ELSE IF SortCmp(x, Head(s)) = "Less" THEN <<x>> \o s
    ELSE <<Head(s)>> \o Insert(x, Tail(s))

RECURSIVE SortBy(_)
SortBy(s) ==
    IF s = <<>> THEN <<>>
    ELSE Insert(s[Len(s)], SortBy(SubSeq(s, 1, Len(s) - 1)))

RECURSIVE Filter(_, _)
Filter(ignore_hidden, s) ==
    IF s = <<>> THEN <<>>
    ELSE IF KeepEntry(ignore_hidden, Head(s))
         THEN <<Head(s)>> \o Filter(ignore_hidden, Tail(s))
         ELSE Filter(ignore_hidden, Tail(s))

\* The entries get_dir_entries returns when the iterator yields `walk`.
GetDirEntries(walk, ignore_hidden) == SortBy(Filter(ignore_hidden, walk))

---------------------------------------------------------------------------
(* print_tree.                                                             *)

IsLast(i, n) == IF n = 0 THEN FALSE ELSE i = n - 1

NewPrefix(prefix, is_last) ==
    IF is_last THEN prefix \o BranchLast ELSE prefix \o BranchMid

ContinuationPrefixMut(prefix, is_last) == prefix \o ContMid
ContinuationPrefix(prefix, is_last) ==
    IF is_last THEN prefix \o ContLast ELSE prefix \o ContMid

Top == stack[Len(stack)]

Pop == SubSeq(stack, 1, Len(stack) - 1)

\* The loop's iterator: whether an entry is left, and the step to the next.
HasNextMut(f) == f.i + 1 < Len(f.entries)
HasNext(f) == f.i < Len(f.entries)

AdvanceMut(f) == [f EXCEPT !.i = f.i + 2]
Advance(f) == [f EXCEPT !.i = f.i + 1]

\* The `?` operator: an Err value makes the enclosing function return it.
PropagatesMut(r) == FALSE
Propagates(r) == r # "Ok"

---------------------------------------------------------------------------
(* The environment: the file system is populated, the program is invoked.  *)

Init ==
    /\ fs \in { (<<>> :> k) : k \in Kinds \cup {"absent"} }
    /\ pc = "setup"
    /\ args = [path |-> FALSE, ignore_hidden |-> FALSE]
    /\ stack = <<>>
    /\ call = NoCall
    /\ ret = "none"
    /\ out = <<>>
    /\ err = <<>>
    /\ result = "none"
    /\ exit_code = -1
    /\ underflow = FALSE
    /\ prev = <<>>
    /\ runs = 0

Create(p, k) ==
    /\ pc = "setup"
    /\ Cardinality(DOMAIN fs) - 1 < MaxNodes
    /\ p \notin DOMAIN fs
    /\ Kind(Parent(p)) = "dir"
    /\ fs' = fs @@ (p :> k)
    /\ UNCHANGED <<pc, args, stack, call, ret, out, err, result, exit_code,
                   underflow, prev, runs>>

\* The program is started with command line a; with `again`, it is started
\* once more on the same file system and the last run is remembered.
Start(a, again) ==
    /\ runs < MaxRuns
    /\ runs' = runs + 1
    /\ prev' = IF again
               THEN <<[ignore_hidden |-> args.ignore_hidden, out |-> out,
                       result |-> result]>>
               ELSE <<>>
    /\ args' = a
    /\ pc' = "main"
    /\ stack' = <<>>
    /\ call' = NoCall
    /\ ret' = "none"
    /\ out' = <<>>
    /\ err' = <<>>
    /\ result' = "none"
    /\ exit_code' = -1
    /\ underflow' = FALSE
    /\ UNCHANGED fs

Invoke(a) ==
    /\ pc = "setup"
    /\ Start(a, FALSE)

\* The same command line again, with --ignore-hidden toggled.
Rerun ==
    /\ pc = "exited"
    /\ Start([args EXCEPT !.ignore_hidden = ~args.ignore_hidden], TRUE)

---------------------------------------------------------------------------
(* main.                                                                   *)

\* The argument parser: a missing path ends the process with a usage error.
ParseArgs ==
    /\ pc = "main"
    /\ IF ~args.path
       THEN /\ err' = Append(err, "usage")
            /\ exit_code' = 2
            /\ pc' = "exited"
            /\ call' = call
       ELSE /\ call' = [path |-> <<>>, prefix |-> <<>>]
            /\ pc' = "call"
            /\ UNCHANGED <<err, exit_code>>
    /\ UNCHANGED <<fs, args, stack, ret, out, result, underflow, prev, runs>>

\* print_tree up to its loop: the is_dir check and get_dir_entries.
PrintTreeEnter ==
    /\ pc = "call"
    /\ IF ~IsDir(call.path)
       THEN /\ ret' = "InvalidPath"
            /\ pc' = "ret"
            /\ stack' = stack
       ELSE IF Kind(call.path) = "noread"
       THEN /\ ret' = "Walkdir"
            /\ pc' = "ret"
            /\ stack' = stack
       ELSE \E walk \in Orders(Children(call.path)) :
            /\ stack' = Append(stack,
                   [path |-> call.path, prefix |-> call.prefix,
                    entries |-> GetDirEntries(walk, args.ignore_hidden), i |-> 0])
            /\ pc' = "loop"
            /\ ret' = ret
    /\ call' = NoCall
    /\ UNCHANGED <<fs, args, out, err, result, exit_code, underflow, prev, runs>>

\* One iteration of the loop of print_tree, up to the recursive call.
LoopBody ==
    /\ pc = "loop"
    /\ HasNext(Top)
    /\ LET f == Top
           entry == f.entries[f.i + 1]
           is_last == IsLast(f.i, Len(f.entries))
           file_name == FileName(entry)
           new_prefix == NewPrefix(f.prefix, is_last)
           continuation_prefix == ContinuationPrefix(f.prefix, is_last)
       IN  /\ underflow' = (underflow \/ Len(f.entries) = 0)
           /\ IF IsDir(entry)
              THEN /\ out' = Append(out, [text |-> new_prefix \o file_name \o <<Slash>>,
                                          path |-> entry])
                   /\ call' = [path |-> entry, prefix |-> continuation_prefix]
                   /\ pc' = "call"
                   /\ stack' = stack
              ELSE /\ out' = Append(out, [text |-> new_prefix \o file_name,
                                          path |-> entry])
                   /\ stack' = [stack EXCEPT ![Len(stack)] = Advance(f)]
                   /\ UNCHANGED <<call, pc>>
    /\ UNCHANGED <<fs, args, ret, err, result, exit_code, prev, runs>>

\* The loop is over: print_tree returns Ok(()).
LoopEnd ==
    /\ pc = "loop"
    /\ ~HasNext(Top)
    /\ stack' = Pop
    /\ ret' = "Ok"
    /\ pc' = "ret"
    /\ UNCHANGED <<fs, args, call, out, err, result, exit_code, underflow, prev, runs>>

\* A call has returned: to main, or to the `?` of the caller's loop.
Return ==
    /\ pc = "ret"
    /\ IF stack = <<>>
       THEN /\ result' = ret
            /\ pc' = "match"
            /\ stack' = stack
       ELSE IF Propagates(ret)
       THEN /\ stack' = Pop
            /\ pc' = "ret"
            /\ result' = result
       ELSE /\ stack' = [stack EXCEPT ![Len(stack)] = Advance(Top)]
            /\ pc' = "loop"
            /\ result' = result
    /\ UNCHANGED <<fs, args, call, ret, out, err, exit_code, underflow, prev, runs>>

\* The match of main on print_tree's result; main then returns.
MainMatch ==
    /\ pc = "match"
    /\ err' = CASE result = "Ok" -> err
                [] result = "Io" -> Append(err, "Error reading the directory: ")
                [] result = "Walkdir" -> Append(err, "Error walking the directory: ")
                [] result = "InvalidPath" -> Append(err, "Invalid directory path: ")
    /\ exit_code' = 0
    /\ pc' = "exited"
    /\ UNCHANGED <<fs, args, stack, call, ret, out, result, underflow, prev, runs>>

Next ==
    \/ \E d \in DOMAIN fs, n \in Names, k \in Kinds : Create(Append(d, n), k)
    \/ \E a \in [path : BOOLEAN, ignore_hidden : BOOLEAN] : Invoke(a)
    \/ Rerun
    \/ ParseArgs
    \/ PrintTreeEnter
    \/ LoopBody
    \/ LoopEnd
    \/ Return
    \/ MainMatch

Spec == Init /\ [][Next]_vars

---------------------------------------------------------------------------
(* Vocabulary of the properties, stated on the file system itself.         *)

\* a is before b in byte-wise lexicographic order.
ByteLess(a, b) ==
    \/ Len(a) < Len(b) /\ \A j \in 1..Len(a) : a[j] = b[j]
    \/ \E k \in 1..Len(a) :
          /\ k <= Len(b)
          /\ a[k] < b[k]
          /\ \A j \in 1..(k - 1) : a[j] = b[j]

Directory(p) == Kind(p) \in {"dir", "noread"}

Hidden(p) == p # <<>> /\ p[Len(p)][1] = 46

\* The children of d that pass the hidden-name filter of the current run.
Passing(d) == { q \in Children(d) : ~(args.ignore_hidden /\ Hidden(q)) }

\* Sibling a is listed before sibling b.
ListedBefore(a, b) ==
    \/ Directory(a) /\ ~Directory(b)
    \/ Directory(a) = Directory(b) /\ ByteLess(a[Len(a)], b[Len(b)])

LastListed(p) == \A s \in Passing(Parent(p)) \ {p} : ListedBefore(s, p)

IsPrefixOf(a, b) == Len(a) <= Len(b) /\ SubSeq(b, 1, Len(a)) = a

Printed == { out[i].path : i \in 1..Len(out) }

LinesAt(d) == { i \in 1..Len(out) : Parent(out[i].path) = d }

\* The directories print_tree has been called on in this run.
Rendered == { d \in DOMAIN fs : Directory(d) /\ (d = <<>> \/ d \in Printed) }

Exited == pc = "exited" /\ args.path

Failed ==
    \/ pc = "ret" /\ ret # "Ok"
    \/ pc \in {"match", "exited"} /\ result \notin {"Ok", "none"}

---------------------------------------------------------------------------
(* C1. Whenever print_tree returns an error of any kind for the root path, *)
(* the process ends with a non-zero exit status; the exit status is 0 only *)
(* when the render succeeded.                                              *)
C1_ExitStatus == Exited => (exit_code = 0 <=> result = "Ok")

---------------------------------------------------------------------------
(* C2. In every listing get_dir_entries produces, at any depth and with or *)
(* without ignore_hidden, every directory precedes every file, and within  *)
(* the directories and within the files the names are in strictly          *)
(* ascending byte-wise order.                                              *)
C2_ListingSorted ==
    \A n \in 1..Len(stack) :
        LET e == stack[n].entries
        IN  \A i, j \in 1..Len(e) :
                i < j =>
                    /\ ~(~Directory(e[i]) /\ Directory(e[j]))
                    /\ Directory(e[i]) = Directory(e[j])
                          => ByteLess(e[i][Len(e[i])], e[j][Len(e[j])])

\* A listing of three entries holding directories and files.
C2_Witness ==
    \E n \in 1..Len(stack) :
        LET e == stack[n].entries
        IN  /\ Len(e) = 3
            /\ \E i, j \in 1..3 : Directory(e[i]) /\ ~Directory(e[j])

---------------------------------------------------------------------------
(* C7. print_tree on a root path that is not a directory (a regular file   *)
(* or a path that does not exist) fails with the invalid-path error and    *)
(* prints no tree line.                                                    *)
C7_InvalidRoot ==
    (pc \in {"match", "exited"} /\ args.path /\ Kind(<<>>) \in {"file", "absent", "nostat"})
        => /\ result = "InvalidPath"
           /\ out = <<>>
           /\ pc = "exited" => err = <<"Invalid directory path: ">>

\* The program has run on a regular file.
C7_Witness == Exited /\ Kind(<<>>) = "file" /\ result = "InvalidPath"

---------------------------------------------------------------------------
(* C3. As claimed: for every readable directory D, a render of D emits at  *)
(* D's own level exactly one line for each immediate child of D that       *)
(* passes the hidden-name filter: none omitted, none twice, nothing else.  *)
C3_AsClaimed ==
    Exited =>
        \A d \in Rendered :
            Kind(d) = "dir" =>
                /\ { out[i].path : i \in LinesAt(d) } = Passing(d)
                /\ Cardinality(LinesAt(d)) = Cardinality(Passing(d))

(* C3, amended.  The lines at D's level are always lines of distinct       *)
(* immediate children of D that pass the filter, printed after D's own     *)
(* line; once the loop over D's listing has run to its end, and for every  *)
(* rendered directory once the whole render has returned success, there is *)
(* exactly one line for each passing child.                                *)
C3_ExactChildren ==
    /\ \A i \in 1..Len(out) :
          LET q == out[i].path
          IN  /\ q # <<>>
              /\ q \in Passing(Parent(q))
              /\ Kind(Parent(q)) = "dir"
              /\ Parent(q) # <<>> => \E j \in 1..(i - 1) : out[j].path = Parent(q)
              /\ \A j \in 1..Len(out) : out[j].path = q => j = i
    /\ (pc = "loop" /\ ~(Top.i < Len(Top.entries)))
          => { out[i].path : i \in LinesAt(Top.path) } = Passing(Top.path)
    /\ (Exited /\ result = "Ok")
          => \A d \in Rendered : { out[i].path : i \in LinesAt(d) } = Passing(d)

\* A successful render with --ignore-hidden of a root with a hidden child,
\* a passing subdirectory and a line below that subdirectory.
C3_Witness ==
    /\ Exited /\ result = "Ok" /\ args.ignore_hidden
    /\ \E q \in Children(<<>>) : Hidden(q)
    /\ \E i \in 1..Len(out) : Len(out[i].path) = 2

---------------------------------------------------------------------------
(* C4. The last entry of a listing is printed with the branch marker       *)
(* "`-- " and hands prefix + four spaces to its descendants, every other   *)
(* entry is printed with "|-- " and hands on prefix + "|   "; so the text  *)
(* before the marker of any line is the concatenation, from the root down, *)
(* of the continuation segments of the entry's ancestors, and is empty for *)
(* the children of the root.                                               *)
RECURSIVE AncestorSegments(_)
AncestorSegments(p) ==
    IF Len(p) <= 1 THEN <<>>
    ELSE AncestorSegments(Parent(p))
            \o (IF LastListed(Parent(p)) THEN <<32, 32, 32, 32>> ELSE <<9474, 32, 32, 32>>)

C4_PrefixComposition ==
    \A i \in 1..Len(out) :
        LET q == out[i].path
        IN  out[i].text =
                AncestorSegments(q)
                    \o (IF LastListed(q) THEN <<9492, 9472, 9472, 32>>
                                         ELSE <<9500, 9472, 9472, 32>>)
                    \o q[Len(q)]
                    \o (IF Directory(q) THEN <<47>> ELSE <<>>)

\* A line three levels below the root has been printed.
C4_Witness == \E i \in 1..Len(out) : Len(out[i].path) = 3

---------------------------------------------------------------------------
(* C5. As claimed: against the render of the same tree without             *)
(* ignore_hidden, the render with it lacks all and only the entries whose  *)
(* own name starts with '.', at every depth.                               *)
NoHiddenComponent(p) == \A k \in 1..Len(p) : p[k][1] # 46

PrevPrinted == { prev[1].out[i].path : i \in 1..Len(prev[1].out) }

\* This run and the one before it, told apart by their flag.
PairOffOn ==
    /\ Exited /\ prev # <<>>
    /\ IF args.ignore_hidden THEN prev[1].result = "Ok" ELSE result = "Ok"

PrintedOff == IF args.ignore_hidden THEN PrevPrinted ELSE Printed

PrintedOn == IF args.ignore_hidden THEN Printed ELSE PrevPrinted

C5_AsClaimed == PairOffOn => PrintedOn = { p \in PrintedOff : ~Hidden(p) }

(* C5, amended.  When the render without ignore_hidden succeeds, the       *)
(* render with it succeeds too and lacks all and only the entries whose    *)
(* own name, or the name of a directory above them below the root, starts  *)
(* with '.': a hidden directory goes with everything under it.             *)
C5_HiddenSubtrees ==
    PairOffOn =>
        /\ result = "Ok" /\ prev[1].result = "Ok"
        /\ PrintedOn = { p \in PrintedOff : NoHiddenComponent(p) }

\* Both renders ran on a tree with a hidden entry and a visible one below
\* a visible directory.
C5_Witness ==
    /\ PairOffOn
    /\ \E p \in PrintedOff : Hidden(p)
    /\ \E p \in PrintedOn : Len(p) = 2

---------------------------------------------------------------------------
(* C6. If a subdirectory at any depth cannot be enumerated, the whole      *)
(* render returns an error, and after the failure no line is printed any   *)
(* more, neither for that subdirectory's contents nor for anything later   *)
(* in traversal order, while every line printed before stays.              *)
C6_ErrorStopsOutput ==
    [][ /\ (pc = "call" /\ Kind(call.path) = "noread")
           => (pc' = "ret" /\ ret' = "Walkdir" /\ out' = out)
        /\ (Failed /\ pc' # "main")
           => /\ Failed'
              /\ out' = out
              /\ pc = "ret" => (IF pc' = "ret" THEN ret' = ret ELSE result' = ret)
              /\ pc # "ret" => result' = result ]_vars

\* A subdirectory two levels down could not be enumerated: its own line is
\* the last one, and a child of the root listed after it was never printed.
C6_Witness ==
    /\ Exited /\ result = "Walkdir"
    /\ Len(out) >= 2
    /\ Len(out[Len(out)].path) = 2
    /\ Kind(out[Len(out)].path) = "noread"
    /\ \E q \in Passing(<<>>) : q \notin Printed

---------------------------------------------------------------------------
(* C8. As claimed: an OS failure while reading an entry's metadata during  *)
(* a render is surfaced as an I/O-kind error and makes the render fail.    *)
\* A child whose metadata cannot be read was listed and classified.
MetadataFailed ==
    \E d \in Rendered : Kind(d) = "dir" /\ \E q \in Passing(d) : Kind(q) = "nostat"

C8_AsClaimed == (Exited /\ MetadataFailed) => result = "Io"

(* C8, amended.  A failing metadata query is not an error of the render:   *)
(* the entry counts as a non-directory.  As a child it is printed like a   *)
(* file, without a slash and without a listing of its own, and the render  *)
(* goes on; as the root it gives the invalid-path error.  print_tree never *)
(* returns the I/O kind, and a render of a directory tree whose only       *)
(* trouble is such entries succeeds.                                       *)
C8_MetadataFailureIsFile ==
    /\ ret # "Io" /\ result # "Io"
    /\ \A i \in 1..Len(out) :
          Kind(out[i].path) = "nostat"
             => /\ out[i].text[Len(out[i].text)] # 47
                /\ LinesAt(out[i].path) = {}
    /\ (pc = "call" /\ call.path # <<>>) => Kind(call.path) # "nostat"
    /\ Exited =>
          /\ Kind(<<>>) = "nostat" => result = "InvalidPath"
          /\ (Kind(<<>>) = "dir" /\ \A q \in DOMAIN fs : fs[q] # "noread")
                => /\ result = "Ok"
                   /\ \A d \in Rendered : \A q \in Passing(d) : q \in Printed

\* A successful render that printed an entry whose metadata cannot be
\* read, and an entry listed after it.
C8_Witness ==
    /\ Exited /\ result = "Ok"
    /\ \E i \in 1..Len(out) : Kind(out[i].path) = "nostat" /\ i < Len(out)

---------------------------------------------------------------------------
(* C9. Output is depth-first: a directory is listed, filtered and sorted   *)
(* in full before any line for its children is printed; for siblings A     *)
(* before B in the sorted listing, A's line and every line of A's subtree  *)
(* come before B's line; a directory's line is followed at once by the     *)
(* lines of its subtree.                                                   *)
C9_DepthFirst ==
    /\ \A n \in 1..Len(stack) :
          LET f == stack[n]
              shown == IF n < Len(stack) \/ pc \in {"call", "ret"} THEN f.i + 1 ELSE f.i
          IN  /\ { f.entries[k] : k \in 1..Len(f.entries) } = Passing(f.path)
              /\ \A j, k \in 1..Len(f.entries) :
                    j < k => ListedBefore(f.entries[j], f.entries[k])
              /\ { out[i].path : i \in LinesAt(f.path) }
                    = { f.entries[k] : k \in { m \in 1..Len(f.entries) : m <= shown } }
    /\ \A i, j \in 1..Len(out) :
          LET a == out[i].path
              b == out[j].path
          IN  /\ (i < j /\ Parent(a) = Parent(b)) => ListedBefore(a, b)
              /\ (Len(b) <= Len(a) /\ Parent(b) = SubSeq(a, 1, Len(b) - 1)
                    /\ ListedBefore(SubSeq(a, 1, Len(b)), b)) => i < j
              /\ (i < j /\ IsPrefixOf(a, b))
                    => \A k \in i..j : IsPrefixOf(a, out[k].path)
              /\ (IsPrefixOf(a, b) /\ a # b) => i < j

\* A directory with a line below it was printed before a later sibling.
C9_Witness ==
    /\ Exited
    /\ \E i, j, k \in 1..Len(out) :
          /\ i < j /\ j < k
          /\ Parent(out[j].path) = out[i].path
          /\ Parent(out[k].path) = Parent(out[i].path)

---------------------------------------------------------------------------
(* C10. Rendering a readable directory whose filtered listing is empty     *)
(* (an empty directory, or with ignore_hidden one that holds only          *)
(* dot-named entries) returns success with no line printed for it, and     *)
(* entries.len() - 1 is never evaluated with length 0, at the root and at  *)
(* any depth.                                                              *)
C10_EmptyListing ==
    [][ /\ ~underflow'
        /\ (pc = "call" /\ Kind(call.path) = "dir" /\ Passing(call.path) = {})
              => (pc' = "loop" /\ Top'.path = call.path /\ out' = out)
        /\ (pc = "loop" /\ Passing(Top.path) = {})
              => (pc' = "ret" /\ ret' = "Ok" /\ out' = out /\ stack' = Pop) ]_vars

\* A directory below the root that holds only dot-named entries has been
\* rendered with --ignore-hidden: no line below it, and the render succeeded.
C10_Witness ==
    /\ Exited /\ result = "Ok" /\ args.ignore_hidden
    /\ \E i \in 1..Len(out) :
          /\ Kind(out[i].path) = "dir"
          /\ Children(out[i].path) # {}
          /\ Passing(out[i].path) = {}
          /\ i < Len(out)

===========================================================================
